---- MODULE Spec2Model ----
(***************************************************************************)
(* A model of Window Merge's merge.c: the widget surgery that merges a     *)
(* Pidgin conversation window into the Buddy List window and splits it     *)
(* off again, the paned layout, and the three signal callbacks.            *)
(*                                                                         *)
(* Widgets are pairs <<kind, id>>.  The widget tree is a record of the     *)
(* three kinds of container the plugin touches: boxes and menu bars (an    *)
(* ordered list of children) and panes (two child slots).                  *)
(***************************************************************************)
EXTENDS Integers, Sequences, FiniteSets

\* ------------------------------------------------------------- bounds
MaxWin   == 2   \* conversation windows pidgin_conv_window_new may create
MaxPaned == 2   \* pane containers alive at a time (an old and a new one)
MaxSize  == 2   \* largest pane size, preference value and max-position

\* ------------------------------------------------------------ widgets
NULL     == <<"NULL", 0>>
BNotebook == <<"blist_notebook", 0>>     \* gtkblist->notebook
BWindow   == <<"blist_window", 0>>       \* gtkblist->window
BVbox     == <<"blist_vbox", 0>>         \* parent of gtkblist->notebook
BMenubar  == <<"blist_menubar", 0>>      \* parent of gtkblist->menutray
BMenutray == <<"blist_menutray", 0>>     \* gtkblist->menutray
CNotebook(w) == <<"conv_notebook", w>>   \* gtkconvwin->notebook
CWindow(w)   == <<"conv_window", w>>     \* the GtkWindow a conv window is made with
CVbox(w)     == <<"conv_vbox", w>>       \* parent of gtkconvwin->notebook
CMenubar(w)  == <<"conv_menubar", w>>    \* gtkconvwin->menu.menubar
Paned(p)     == <<"paned", p>>
Placeholder(w) == <<"placeholder", w>>   \* the label left in CVbox(w)

Wins   == 1..MaxWin
Paneds == 1..MaxPaned

\* Children pidgin_conv_window_new gives a conversation window's menu bar:
\* two menu items with a submenu and the window's own menu tray.
ConvMenuItems(w) == << <<"conv_item_Conversation", w>>,
                       <<"conv_item_Options", w>>,
                       <<"conv_menutray", w>> >>
\* GTK_IS_MENU_ITEM(item) && GTK_IS_MENU(gtk_menu_item_get_submenu(item))
HasSubmenu(item) == item[1] \in {"conv_item_Conversation", "conv_item_Options"}
\* gtk_menu_get_accel_group: Pidgin's menus of one window share one group
AccelGroupOf(item) == <<"accel_group", item[2]>>

\* The six bindings merge skips, and the rest of GtkIMHtml's binding set
SkippedByMerge == {"Up", "Down", "Page_Up", "Page_Down",
                   "KP_Page_Up", "KP_Page_Down"}

\* ------------------------------------------------------- side strings
\* A C string is the sequence of its characters; NullSide is the NULL pointer.
NullSide == [isNull |-> TRUE, chars |-> <<>>]
Str(s)   == [isNull |-> FALSE, chars |-> s]
Top    == Str(<<"t","o","p">>)
Bottom == Str(<<"b","o","t","t","o","m">>)
Left   == Str(<<"l","e","f","t">>)
Right  == Str(<<"r","i","g","h","t">>)
\* The values the side can take: the four the plugin offers, and the NULL
\* pointer, the empty string and a string that is none of the four.
Sides == { NullSide, Str(<<>>), Top, Bottom, Left, Right, Str(<<"x","t">>) }

\* side != NULL && (*side == c1 || *side == c2); *side of "" is the
\* terminating NUL, which equals neither character.
FirstCharIn(side, cs) ==
  /\ ~side.isNull
  /\ Len(side.chars) > 0
  /\ side.chars[1] \in cs

Titles == {"Buddy List", "conversation"}

VARIABLES
  tree,        \* the widget tree: [box, menubar, pchild]
  slots,       \* object data of gtkblist->notebook: pwm_convs and the saved state
  convBlist,   \* object data "pwm_blist" of each conversation notebook
  convStruct,  \* PidginWindow.window of each conversation window structure
  nWin,        \* conversation windows created so far
  paned,       \* per pane container: orientation, slider, handlers
  prefs,       \* the preference store: width and height
  blistWin,    \* Buddy List window: title, icons, accel groups, focus handlers
  skipped,     \* binding entries of the GtkIMHtml class that are skipped
  convItemsVisible, \* conversation menu items currently shown
  convShown,   \* conversation windows that have been shown
  dummy,       \* whether the instructions tab exists
  crashed,     \* the host died on a NULL dereference
  last,        \* history: what the last step was and what it was given
  pre          \* history: the state pwm_merge_conversation found when it last acted

vars == << tree, slots, convBlist, convStruct, nWin, paned, prefs,
           blistWin, skipped, convItemsVisible, convShown, dummy, crashed,
           last, pre >>


\* ------------------------------------------------ the widget tree (GTK)
Boxes    == {BVbox} \cup {CVbox(w) : w \in Wins}
Menubars == {BMenubar} \cup {CMenubar(w) : w \in Wins}

Range(s) == {s[i] : i \in DOMAIN s}
IsPaned(c) == c[1] = "paned"

\* gtk_widget_get_parent
ParentOf(T, x) ==
  IF \E b \in Boxes : x \in Range(T.box[b])
    THEN CHOOSE b \in Boxes : x \in Range(T.box[b])
  ELSE IF \E m \in Menubars : x \in Range(T.menubar[m])
    THEN CHOOSE m \in Menubars : x \in Range(T.menubar[m])
  ELSE IF \E p \in Paneds : x \in {T.pchild[p].c1, T.pchild[p].c2}
    THEN Paned(CHOOSE p \in Paneds : x \in {T.pchild[p].c1, T.pchild[p].c2})
  ELSE NULL

\* gtk_container_get_children
ChildrenOf(T, c) ==
  IF c \in Boxes THEN T.box[c]
  ELSE IF c \in Menubars THEN T.menubar[c]
  ELSE <<>>

\* gtk_container_remove: x leaves whatever container holds it
RemoveFrom(T, par, x) ==
  IF par \in Boxes
    THEN [T EXCEPT !.box[par] = SelectSeq(@, LAMBDA y : y # x)]
  ELSE IF par \in Menubars
    THEN [T EXCEPT !.menubar[par] = SelectSeq(@, LAMBDA y : y # x)]
  ELSE IF par = NULL THEN T
  ELSE [T EXCEPT !.pchild[par[2]] =
                   [c1 |-> IF @.c1 = x THEN NULL ELSE @.c1,
                    c2 |-> IF @.c2 = x THEN NULL ELSE @.c2]]

Remove(T, x) == RemoveFrom(T, ParentOf(T, x), x)

\* gtk_container_add: a box or a menu shell appends; a GtkPaned fills its
\* first free child slot and refuses a third child.
Add(T, c, x) ==
  IF c \in Boxes THEN [T EXCEPT !.box[c] = Append(@, x)]
  ELSE IF c \in Menubars THEN [T EXCEPT !.menubar[c] = Append(@, x)]
  ELSE IF IsPaned(c) THEN
    IF T.pchild[c[2]].c1 = NULL THEN [T EXCEPT !.pchild[c[2]].c1 = x]
    ELSE IF T.pchild[c[2]].c2 = NULL THEN [T EXCEPT !.pchild[c[2]].c2 = x]
    ELSE T
  ELSE T

\* gtk_widget_reparent: nothing happens when the parent is already new_parent
Reparent(T, x, new_parent) ==
  IF ParentOf(T, x) = new_parent THEN T ELSE Add(Remove(T, x), new_parent, x)

\* Position of x among the children of its parent
IndexIn(s, x) == CHOOSE i \in DOMAIN s : s[i] = x
InsertAt(s, i, x) == SubSeq(s, 1, i - 1) \o <<x>> \o SubSeq(s, i, Len(s))

\* pwm_widget_replace(original, replacement, new_parent): replacement takes
\* original's place in original's parent; original moves to new_parent, or
\* is destroyed when new_parent is NULL.
PlaceAt(T, par, idx, x) ==
  IF par \in Boxes THEN [T EXCEPT !.box[par] = InsertAt(@, idx, x)]
  ELSE IF par \in Menubars THEN [T EXCEPT !.menubar[par] = InsertAt(@, idx, x)]
  ELSE IF par = NULL THEN T
  ELSE Add(T, par, x)

MoveAway(T, par, original, replacement, new_parent) ==
  PlaceAt(IF new_parent # NULL THEN Reparent(T, original, new_parent)
                               ELSE Remove(T, original),
          par,
          IF par \in Boxes \cup Menubars
            THEN IndexIn(ChildrenOf(T, par), original) ELSE 0,
          replacement)

WidgetReplaceIn(T, original, replacement, new_parent) ==
  MoveAway(T, ParentOf(T, original), original, replacement, new_parent)

WidgetReplace(T, original, replacement, new_parent) ==
  WidgetReplaceIn(Remove(T, replacement), original, replacement, new_parent)

\* ------------------------------------------- saved state (object data)
\* pwm_store / pwm_fetch / pwm_clear keep named values on gtkblist->notebook.
\* Each slot has its own NULL: 0 for a conversation window structure, NULL
\* for a widget, <<>> for an empty GList, "NULL" for a string.
EmptySlots == [pwm_convs |-> 0, title |-> "NULL", conv_menus |-> <<>>,
               paned |-> NULL, placeholder |-> NULL, conv_window |-> NULL]
SlotNull(key) == EmptySlots[key]

Store(S, key, value) == [S EXCEPT ![key] = value]
Fetch(S, key) == S[key]
Clear(S, key) == [S EXCEPT ![key] = SlotNull(key)]
\* pwm_blist_get_convs
BlistGetConvs(S) == S.pwm_convs

\* ------------------------------------------------- GtkPaned and its signals
\* A pane container that does not exist: not created yet, or destroyed.
NoPaned ==
  [live |-> FALSE, vertical |-> FALSE, position |-> 0, positionSet |-> FALSE,
   maxPosition |-> 0, allocated |-> FALSE, resize1 |-> FALSE,
   resize2 |-> TRUE, maxcb |-> 0, poscb |-> 0,
   maxRuns |-> 0]

\* gtk_vpaned_new / gtk_hpaned_new; maxRuns is history, the runs of
\* notify_max_position_cb on this pane container.
NewPaned(vertical) == [NoPaned EXCEPT !.live = TRUE, !.vertical = vertical]

\* The identity of a newly created pane container: one that no live pane
\* container has (that of a destroyed one may be used again).
FreePaned(P) ==
  CHOOSE q \in Paneds : /\ ~P[q].live
                        /\ \A r \in Paneds : ~P[r].live => q <= r

Clamp(v, lo, hi) == IF v < lo THEN lo ELSE IF v > hi THEN hi ELSE v
Min(a, b) == IF a < b THEN a ELSE b

\* notify_position_cb(gobject = pane p, data = gtkblist), on the callback
\* state C = [paned, prefs]
NotifyPositionCb(T, C, p) ==
  LET position == C.paned[p].position            \* gtk_paned_get_position
      size == IF T.pchild[p].c1 # BNotebook
                THEN C.paned[p].maxPosition - position
                ELSE position
  IN  IF C.paned[p].vertical
        THEN [C EXCEPT !.prefs.height = size]
        ELSE [C EXCEPT !.prefs.width = size]

\* Emission of notify::position: every connected notify_position_cb runs;
\* a second run on the same state stores the same value.
EmitPosition(T, C, p) ==
  IF C.paned[p].poscb > 0 THEN NotifyPositionCb(T, C, p) ELSE C

\* gtk_paned_set_position: a negative position unsets the position and leaves
\* the slider where it is; the position is not clamped here.  Either way
\* "position" is notified.
PanedSetPosition(T, C, p, position) ==
  LET C1 == IF position >= 0
              THEN [C EXCEPT !.paned[p].position = position,
                             !.paned[p].positionSet = TRUE]
              ELSE [C EXCEPT !.paned[p].positionSet = FALSE]
  IN  EmitPosition(T, C1, p)

\* Mutant: the callback does not disconnect itself
NotifyMaxPositionCbStays(T, C, p) ==
  LET pref == IF C.paned[p].vertical THEN C.prefs.height ELSE C.prefs.width
      size == IF T.pchild[p].c1 # BNotebook
                THEN C.paned[p].maxPosition - pref
                ELSE pref
      C1 == PanedSetPosition(T, C, p, size)
      C3 == [C1 EXCEPT !.paned[p].poscb = Min(@ + 1, 2)]
  IN  [C3 EXCEPT !.paned[p].maxRuns = Min(@ + 1, 2)]

\* notify_max_position_cb(gobject = pane p, data = gtkblist)
NotifyMaxPositionCb(T, C, p) ==
  LET pref == IF C.paned[p].vertical THEN C.prefs.height ELSE C.prefs.width
      size == IF T.pchild[p].c1 # BNotebook
                THEN C.paned[p].maxPosition - pref
                ELSE pref
      C1 == PanedSetPosition(T, C, p, size)
      \* g_object_disconnect "any_signal": every handler with this callback
      \* and data goes
      C2 == [C1 EXCEPT !.paned[p].maxcb = 0]
      C3 == [C2 EXCEPT !.paned[p].poscb = @ + 1]
  IN  [C3 EXCEPT !.paned[p].maxRuns = Min(@ + 1, 2)]

\* Emission of notify::max-position: the handlers connected when it starts
\* run in turn, except those disconnected meanwhile; the first run of
\* notify_max_position_cb disconnects all of them.
EmitMaxPosition(T, C, p) ==
  IF C.paned[p].maxcb > 0 THEN NotifyMaxPositionCb(T, C, p) ELSE C

\* gtk_paned_size_allocate with a new max-position m.  Without a set position
\* the slider goes where the children's size requests put it (free, any
\* value up to m); with one, a first child that alone has "resize" set takes
\* the change of the allocation, a second child that alone has it leaves the
\* slider alone, and otherwise the slider keeps its proportion.  The result
\* is clamped, then "position" and "max-position" are notified, in this
\* order, each if it changed.
PanedAllocate(T, C, p, m, free) ==
  LET old  == C.paned[p]
      pos1 == IF ~old.positionSet THEN free
              ELSE IF ~old.allocated THEN old.position
              ELSE IF old.resize1 /\ ~old.resize2
                THEN old.position + (m - old.maxPosition)
              ELSE IF ~old.resize1 /\ old.resize2 THEN old.position
              ELSE IF old.maxPosition > 0
                THEN (m * old.position) \div old.maxPosition
              ELSE old.position
      pos2 == Clamp(pos1, 0, m)
      C1 == [C EXCEPT !.paned[p].position = pos2,
                      !.paned[p].maxPosition = m,
                      !.paned[p].allocated = TRUE]
      C2 == IF pos2 # old.position THEN EmitPosition(T, C1, p) ELSE C1
  IN  IF ~old.allocated \/ m # old.maxPosition
        THEN EmitMaxPosition(T, C2, p) ELSE C2

\* ------------------------------------------------ pwm_create_paned_layout
\* Mutant: any character of the side string decides, not the first
IsVerticalAnyChar(side) ==
  /\ ~side.isNull
  /\ \E i \in DOMAIN side.chars : side.chars[i] \in {"t", "b"}

\* side != NULL && (*side == 't' || *side == 'b'): a GtkVPaned is created
IsVertical(side) == FirstCharIn(side, {"t", "b"})
\* side != NULL && (*side == 't' || *side == 'l'): conversations go first
ConvFirst(side) == FirstCharIn(side, {"t", "l"})

\* old_paned == NULL: the notebooks leave their places to a placeholder and
\* to the new pane container p
FreshLayout(T, w, p, convFirst) ==
  IF convFirst
    THEN WidgetReplace(
           WidgetReplace(T, CNotebook(w), Placeholder(w), Paned(p)),
           BNotebook, Paned(p), Paned(p))
    ELSE WidgetReplace(
           WidgetReplace(T, BNotebook, Paned(p), Paned(p)),
           CNotebook(w), Placeholder(w), Paned(p))

\* Mutant: the old pane container keeps its place in the window
ReplacedLayoutOldStays(T, w, p, old_paned, convFirst) ==
  IF convFirst
    THEN Reparent(Reparent(T, CNotebook(w), Paned(p)), BNotebook, Paned(p))
    ELSE Reparent(Reparent(T, BNotebook, Paned(p)), CNotebook(w), Paned(p))

\* old_paned != NULL: the notebooks move over and the old container goes
ReplacedLayout(T, w, p, old_paned, convFirst) ==
  WidgetReplace(
    IF convFirst
      THEN Reparent(Reparent(T, CNotebook(w), Paned(p)), BNotebook, Paned(p))
      ELSE Reparent(Reparent(T, BNotebook, Paned(p)), CNotebook(w), Paned(p)),
    old_paned, Paned(p), NULL)

\* The state after the call, given the new widget tree: the pane container
\* is created with notify_max_position_cb connected and stored; the "resize"
\* child property is TRUE for the conversations, FALSE for the Buddy List;
\* the pane container that was replaced is destroyed.
LayoutDone(L, side, w, p, old_paned, newTree) ==
  [tree   |-> newTree,
   slots  |-> IF old_paned = NULL
                THEN Store(Store(L.slots, "paned", Paned(p)),
                           "placeholder", Placeholder(w))
                ELSE Store(L.slots, "paned", Paned(p)),
   paned  |-> [ (IF old_paned = NULL THEN L.paned
                 ELSE [L.paned EXCEPT ![old_paned[2]] = NoPaned])
                EXCEPT ![p] =
                  [NewPaned(IsVertical(side)) EXCEPT
                     !.maxcb = 1,
                     !.resize1 = (newTree.pchild[p].c1 = CNotebook(w)),
                     !.resize2 = (newTree.pchild[p].c2 = CNotebook(w))] ]]

\* pwm_create_paned_layout(gtkblist, side) on the part of the state it works
\* on, L = [tree, slots, paned]
CreatePanedLayout(L, side) ==
  LET w         == BlistGetConvs(L.slots)
      old_paned == Fetch(L.slots, "paned")
      p         == FreePaned(L.paned)
  IN  LayoutDone(L, side, w, p, old_paned,
                 IF old_paned = NULL
                   THEN FreshLayout(L.tree, w, p, ConvFirst(side))
                   ELSE ReplacedLayout(L.tree, w, p, old_paned, ConvFirst(side)))

\* --------------------------------------------- pwm_set_conv_menus_visible
\* The conversation menu items shown after the call, from those shown before
SetConvMenusVisible(S, shown, visible) ==
  LET items == Fetch(S, "conv_menus")
  IN  IF visible THEN shown \cup Range(items) ELSE shown \ Range(items)

\* ------------------------------------------------------ focus_in_event_cb
\* focus_in_event_cb(widget, event, data): one focus-in event for data, and
\* the return value.
FocusInEventCb(data) == [event |-> data, stop |-> FALSE]

\* Emission of focus-in-event on the Buddy List window: the handlers run in
\* the order they were connected until one returns TRUE; the window's default
\* handler runs last, unless one did.
RECURSIVE RunFocusHandlers(_, _)
RunFocusHandlers(handlers, delivered) ==
  IF handlers = <<>> THEN [delivered |-> delivered, defaultRan |-> TRUE]
  ELSE LET h == Head(handlers)
           r == IF h.cb = "focus_in_event_cb" THEN FocusInEventCb(h.data)
                ELSE [event |-> NULL, stop |-> FALSE]
           d == IF r.event = NULL THEN delivered ELSE Append(delivered, r.event)
       IN  IF r.stop THEN [delivered |-> d, defaultRan |-> FALSE]
           ELSE RunFocusHandlers(Tail(handlers), d)

\* ------------------------------------------------- pwm_merge_conversation
\* Mutant: the sanity check is missing
AlreadyMergedUnchecked(S) == FALSE

\* The sanity check: the Buddy List is already merged
AlreadyMerged(S) == BlistGetConvs(S) # 0

\* g_object_set_data(gtkblist->notebook, "pwm_convs", gtkconvwin)
SetConvs(S, w) == [S EXCEPT !.pwm_convs = w]

\* pidgin_conv_window_new: window w with its menu bar and notebook in a box
ConvWindowNew(T, w) ==
  [T EXCEPT !.box[CVbox(w)] = <<CMenubar(w), CNotebook(w)>>,
            !.menubar[CMenubar(w)] = ConvMenuItems(w)]

RECURSIVE ReparentAll(_, _, _)
ReparentAll(T, items, new_parent) ==
  IF items = <<>> THEN T
  ELSE ReparentAll(Reparent(T, Head(items), new_parent), Tail(items), new_parent)

\* Mutant: the menu tray does not step aside
MigrateMenusTrayStays(T, items, blist_menu, conv_menubar) ==
  ReparentAll(T, items, blist_menu)

\* The menu tray steps aside into the conversation menu bar, the items move
\* into the Buddy List bar, and the tray returns behind them.
MigrateMenus(T, items, blist_menu, conv_menubar) ==
  LET T1 == Reparent(T, BMenutray, conv_menubar)
      T2 == ReparentAll(T1, items, blist_menu)
  IN  Reparent(T2, BMenutray, blist_menu)

\* gtk_window_add_accel_group for the submenu of every item that has one;
\* a group the window already has is not added again.
AddAccelGroups(accel, items) ==
  accel \cup {AccelGroupOf(i) : i \in {j \in Range(items) : HasSubmenu(j)}}

\* g_object_connect "signal::focus-in-event"
ConnectFocus(handlers, data) ==
  Append(handlers, [cb |-> "focus_in_event_cb", data |-> data])

\* Mutant: the keypad bindings are forgotten
SkipBindingsButKeypad(entries) ==
  entries \cup {"Up", "Down", "Page_Up", "Page_Down"}

\* gtk_binding_entry_skip, six times
SkipBindings(entries) == entries \cup SkippedByMerge

\* ------------------------------------------------- pwm_split_conversation
\* Mutant: the handler is looked for with the Buddy List's window as data,
\* as if the window pointer had not been restored first
DisconnectFocusStale(handlers, data) ==
  SelectSeq(handlers, LAMBDA h : ~(h.cb = "focus_in_event_cb" /\ h.data = BWindow))

\* g_object_disconnect "any_signal": every handler with this callback and
\* this data is disconnected
DisconnectFocus(handlers, data) ==
  SelectSeq(handlers, LAMBDA h : ~(h.cb = "focus_in_event_cb" /\ h.data = data))

\* gtk_window_remove_accel_group for the submenu of every item that has one
RemoveAccelGroups(accel, items) ==
  accel \ {AccelGroupOf(i) : i \in {j \in Range(items) : HasSubmenu(j)}}

\* Mutant: the placeholder slot is not cleared
SplitClearsButPlaceholder(S) ==
  Clear(Clear(Clear(Clear(S, "conv_window"), "conv_menus"), "paned"), "title")

\* The slots pwm_split_conversation clears
SplitClears(S) ==
  Clear(Clear(Clear(Clear(Clear(S, "conv_window"), "conv_menus"),
                    "placeholder"), "paned"), "title")

\* Mutant: only the conversation window's side of the association is removed
StealConvsKept(S) == S

\* g_object_steal_data(gtkblist->notebook, "pwm_convs")
StealConvs(S) == [S EXCEPT !.pwm_convs = 0]

\* Mutant: the saved window is cleared before it is fetched
RestoredWindowCleared(S) == Fetch(Clear(S, "conv_window"), "conv_window")

\* gtkconvwin->window = pwm_fetch(gtkblist, "conv_window")
RestoredWindow(S) == Fetch(S, "conv_window")

\* -------------------------------------------------------------- the state
Snapshot ==
  [notebookParent |-> ParentOf(tree, BNotebook),
   accel          |-> blistWin.accel,
   title          |-> blistWin.title,
   focus          |-> blistWin.focus,
   skipped        |-> skipped]

\* What a step leaves in last: the operation ("other" for the steps of the
\* toolkit and the host), whether pwm_create_paned_layout ran in it and with
\* which side, and what a focus-in event did.
NoFocus == [delivered |-> <<>>, defaultRan |-> FALSE]
Step(op) == [op |-> op, layout |-> FALSE, side |-> NullSide, focus |-> NoFocus]
LayoutStep(op, side) ==
  [op |-> op, layout |-> TRUE, side |-> side, focus |-> NoFocus]

Init ==
  /\ tree = [box     |-> [b \in Boxes |->
                            IF b = BVbox THEN <<BMenubar, BNotebook>> ELSE <<>>],
             menubar |-> [m \in Menubars |->
                            IF m = BMenubar
                              THEN << <<"blist_item_Buddies", 0>>,
                                      <<"blist_item_Tools", 0>>, BMenutray >>
                              ELSE <<>>],
             pchild  |-> [p \in Paneds |-> [c1 |-> NULL, c2 |-> NULL]]]
  /\ slots = EmptySlots
  /\ convBlist = [w \in Wins |-> 0]
  /\ convStruct = [w \in Wins |-> NULL]
  /\ nWin = 0
  /\ paned = [p \in Paneds |-> NoPaned]
  /\ prefs \in [width : 0..MaxSize, height : 0..MaxSize]
  /\ blistWin = [title |-> "Buddy List", icons |-> "NULL",
                 accel |-> {<<"accel_group", 0>>},
                 focus |-> << [cb |-> "blist_focus_cb", data |-> NULL] >>]
  /\ skipped = {}
  /\ convItemsVisible = {}
  /\ convShown = {}
  /\ dummy = FALSE
  /\ crashed = FALSE
  /\ last = Step("init")
  /\ pre = [notebookParent |-> BVbox, accel |-> {<<"accel_group", 0>>},
            title |-> "Buddy List",
            focus |-> << [cb |-> "blist_focus_cb", data |-> NULL] >>,
            skipped |-> {}]

\* pwm_merge_conversation(gtkblist) past the sanity check, with the
\* conversation window w, its window as created, and the state L that
\* pwm_create_paned_layout left
MergeFrom(w, window, blist_menu, L) ==
  LET items == ChildrenOf(L.tree, CMenubar(w))
      menus == Store(L.slots, "conv_menus", items)
  IN  /\ pre' = Snapshot
      /\ nWin' = w
      /\ convBlist' = [convBlist EXCEPT ![w] = 1]
      /\ tree' = MigrateMenus(L.tree, items, blist_menu, CMenubar(w))
      /\ paned' = L.paned
      /\ dummy' = TRUE
      /\ convItemsVisible' =
           SetConvMenusVisible(menus, convItemsVisible \cup Range(items), FALSE)
      /\ blistWin' = [blistWin EXCEPT
                        !.accel = AddAccelGroups(@, items),
                        !.focus = ConnectFocus(@, window)]
      /\ slots' = Store(menus, "conv_window", window)
      /\ convStruct' = [convStruct EXCEPT ![w] = BWindow]
      /\ skipped' = SkipBindings(skipped)
      /\ UNCHANGED << prefs, convShown, crashed >>

\* pwm_merge_conversation(gtkblist); side is what the preference store
\* answers to purple_prefs_get_string(PREF_SIDE)
MergeConversation ==
  /\ ~crashed
  /\ IF AlreadyMerged(slots)
       THEN /\ last' = Step("merge")
            /\ UNCHANGED << tree, slots, convBlist, convStruct, nWin, paned,
                            prefs, blistWin, skipped, convItemsVisible, convShown,
                            dummy, crashed, pre >>
       ELSE
         /\ nWin < MaxWin
         /\ \E side \in Sides :
              /\ last' = LayoutStep("merge", side)
              /\ \E L \in {CreatePanedLayout(
                             [tree   |-> ConvWindowNew(tree, nWin + 1),
                              slots  |-> Store(SetConvs(slots, nWin + 1),
                                               "title", blistWin.title),
                              paned  |-> paned],
                             side)} :
                   MergeFrom(nWin + 1, CWindow(nWin + 1),
                             ParentOf(tree, BMenutray), L)

\* pwm_split_conversation(gtkblist) on a merged Buddy List, with the
\* conversation window w and the values fetched at its start
SplitFrom(w, items, old, title, window) ==
  /\ slots' = SplitClears(StealConvs(slots))
  /\ convBlist' = [convBlist EXCEPT ![w] = 0]
  /\ convStruct' = [convStruct EXCEPT ![w] = window]
  /\ tree' = WidgetReplace(
               WidgetReplace(ReparentAll(tree, items, CMenubar(w)),
                             Fetch(slots, "placeholder"), CNotebook(w), NULL),
               old, BNotebook, NULL)
  /\ paned' = [paned EXCEPT ![old[2]] = NoPaned]
  /\ convShown' = convShown \cup {w}
  /\ dummy' = FALSE
  /\ blistWin' = [title |-> title, icons |-> "NULL",
                  accel |-> RemoveAccelGroups(blistWin.accel, items),
                  focus |-> DisconnectFocus(blistWin.focus, window)]
  /\ UNCHANGED << nWin, prefs, skipped, convItemsVisible, crashed, pre >>

\* Mutant: with no conversation window the call returns, as merge does
SplitReturnsWhenUnmerged ==
  UNCHANGED << tree, slots, convBlist, convStruct, nWin, paned, prefs,
               blistWin, skipped, convItemsVisible, convShown, dummy, pre,
               crashed >>

\* pwm_split_conversation(gtkblist) when pwm_blist_get_convs gave NULL: no
\* test stands before G_OBJECT(gtkconvwin->notebook), the host reads through
\* the NULL pointer and dies; stealing "pwm_convs" before it found nothing
SplitThroughNull ==
  /\ crashed' = TRUE
  /\ UNCHANGED << tree, slots, convBlist, convStruct, nWin, paned, prefs,
                  blistWin, skipped, convItemsVisible, convShown, dummy, pre >>

\* pwm_split_conversation(gtkblist)
SplitConversation ==
  /\ ~crashed
  /\ last' = Step("split")
  /\ IF BlistGetConvs(slots) = 0
       THEN SplitThroughNull
       ELSE SplitFrom(BlistGetConvs(slots), Fetch(slots, "conv_menus"),
                      Fetch(slots, "paned"), Fetch(slots, "title"),
                      RestoredWindow(slots))

\* pwm_create_paned_layout(gtkblist, side) on a merged Buddy List, as the
\* plugin calls it when the side preference changes
PanedLayout(side) ==
  /\ ~crashed
  /\ BlistGetConvs(slots) # 0
  /\ last' = LayoutStep("layout", side)
  /\ \E L \in {CreatePanedLayout(
                 [tree |-> tree, slots |-> slots, paned |-> paned], side)} :
       /\ tree' = L.tree
       /\ slots' = L.slots
       /\ paned' = L.paned
  /\ UNCHANGED << convBlist, convStruct, nWin, prefs, blistWin, skipped,
                  convItemsVisible, convShown, dummy, crashed, pre >>

\* pwm_set_conv_menus_visible(gtkblist, visible), which the plugin calls as
\* the conversations of a merged Buddy List come and go
ConvMenusVisible(visible) ==
  /\ ~crashed
  /\ BlistGetConvs(slots) # 0
  /\ last' = Step("visible")
  /\ convItemsVisible' = SetConvMenusVisible(slots, convItemsVisible, visible)
  /\ UNCHANGED << tree, slots, convBlist, convStruct, nWin, paned, prefs,
                  blistWin, skipped, convShown, dummy, crashed, pre >>

\* The Buddy List window receives a focus-in event
FocusIn ==
  /\ ~crashed
  /\ last' = [Step("focus") EXCEPT !.focus = RunFocusHandlers(blistWin.focus, <<>>)]
  /\ UNCHANGED << tree, slots, convBlist, convStruct, nWin, paned, prefs,
                  blistWin, skipped, convItemsVisible, convShown, dummy, crashed,
                  pre >>

\* The window is laid out: pane container p gets max-position m; free is
\* where the children's size requests put a slider that has no set position
SizeAllocate(p, m, free) ==
  /\ ~crashed
  /\ paned[p].live
  /\ free <= m
  /\ paned[p].positionSet => free = 0
  /\ last' = Step("other")
  /\ \E C \in {PanedAllocate(tree, [paned |-> paned, prefs |-> prefs], p, m, free)} :
       /\ paned' = C.paned
       /\ prefs' = C.prefs
  /\ UNCHANGED << tree, slots, convBlist, convStruct, nWin, blistWin,
                  skipped, convItemsVisible, convShown, dummy, crashed, pre >>

\* The user drags the slider of pane container p to position
DragSlider(p, position) ==
  /\ ~crashed
  /\ paned[p].live
  /\ paned[p].allocated
  /\ position \in 0..paned[p].maxPosition
  /\ position # paned[p].position
  /\ last' = Step("other")
  /\ \E C \in {PanedSetPosition(tree, [paned |-> paned, prefs |-> prefs],
                                p, position)} :
       /\ paned' = C.paned
       /\ prefs' = C.prefs
  /\ UNCHANGED << tree, slots, convBlist, convStruct, nWin, blistWin,
                  skipped, convItemsVisible, convShown, dummy, crashed, pre >>

\* A conversation window retitles the window its structure points at; only
\* the Buddy List window's title is part of the state.
HostSetTitle(w, title) ==
  /\ ~crashed
  /\ w <= nWin
  /\ convStruct[w] = BWindow
  /\ title # blistWin.title
  /\ last' = Step("other")
  /\ blistWin' = [blistWin EXCEPT !.title = title, !.icons = "conversation"]
  /\ UNCHANGED << tree, slots, convBlist, convStruct, nWin, paned, prefs,
                  skipped, convItemsVisible, convShown, dummy, crashed, pre >>

\* The steps of the plugin's own operations
Merging ==
  \/ MergeConversation
  \/ SplitConversation
  \/ \E side \in Sides : PanedLayout(side)

\* The steps of the host around a merged window: menus, focus, titles
Hosting ==
  \/ \E visible \in BOOLEAN : ConvMenusVisible(visible)
  \/ FocusIn
  \/ \E w \in Wins, title \in Titles : HostSetTitle(w, title)

\* The steps of the toolkit on a pane container: layout and the slider
Sizing ==
  \/ \E p \in Paneds, m \in 0..MaxSize, free \in 0..MaxSize :
       SizeAllocate(p, m, free)
  \/ \E p \in Paneds, position \in 0..MaxSize : DragSlider(p, position)

Next == Merging \/ Hosting \/ Sizing

\* The whole system
Spec == Init /\ [][Next]_vars

\* The merge and everything the host does with the merged window; the pane
\* containers keep the size they are created with
NextMerge == Merging \/ Hosting
SpecMerge == Init /\ [][NextMerge]_vars

\* The merge and everything the toolkit does with the pane containers
NextPanes == Merging \/ Sizing
SpecPanes == Init /\ [][NextPanes]_vars

TypeOK ==
  /\ nWin \in 0..MaxWin
  /\ prefs.width \in 0..MaxSize
  /\ prefs.height \in 0..MaxSize
  /\ \A p \in Paneds : paned[p].position \in 0..MaxSize

\* ------------------------------------------------------------ the claims
Merged == slots.pwm_convs # 0
\* The focus-forwarding handlers connected to the Buddy List window
ForwardingHandlers ==
  SelectSeq(blistWin.focus, LAMBDA h : h.cb = "focus_in_event_cb")
\* The first character of a side string is c
StartsWith(side, c) ==
  /\ ~side.isNull
  /\ side.chars # <<>>
  /\ Head(side.chars) = c

\* C1: merge followed by split (with any re-layouts in between) returns the
\* Buddy List notebook's parent, the conversation notebook's parent, the
\* menu bar of each conversation menu item, the accelerator groups and the
\* title of the Buddy List window, the conversation window structure's
\* window pointer, the focus-in handlers and the key bindings of the HTML
\* widget class to their values before the merge.
C1_SplitUndoesMerge ==
  (last.op = "split" /\ ~crashed) =>
    /\ ParentOf(tree, BNotebook) = pre.notebookParent
    /\ ParentOf(tree, CNotebook(nWin)) = CVbox(nWin)
    /\ \A i \in Range(ConvMenuItems(nWin)) : ParentOf(tree, i) = CMenubar(nWin)
    /\ blistWin.accel = pre.accel
    /\ blistWin.title = pre.title
    /\ convStruct[nWin] = CWindow(nWin)
    /\ blistWin.focus = pre.focus
    /\ skipped = pre.skipped

\* What C1 says of everything but the key bindings
C1_SplitUndoesMergeButBindings ==
  (last.op = "split" /\ ~crashed) =>
    /\ ParentOf(tree, BNotebook) = pre.notebookParent
    /\ ParentOf(tree, CNotebook(nWin)) = CVbox(nWin)
    /\ \A i \in Range(ConvMenuItems(nWin)) : ParentOf(tree, i) = CMenubar(nWin)
    /\ blistWin.accel = pre.accel
    /\ blistWin.title = pre.title
    /\ convStruct[nWin] = CWindow(nWin)
    /\ blistWin.focus = pre.focus

\* C2: pwm_merge_conversation on a Buddy List that is already merged changes
\* nothing: no conversation window is created, no saved-state slot is
\* overwritten, no widget is reparented, no focus-in handler is connected.
C2_DoubleMergeChangesNothing ==
  [][(Merged /\ last'.op = "merge") =>
       UNCHANGED << tree, slots, convBlist, convStruct, nWin, paned, prefs,
                    blistWin, skipped, convItemsVisible, convShown, dummy,
                    crashed, pre >>]_vars
C2_Witness == Merged /\ last.op = "merge" /\ ~last.layout

\* C3: whenever the Buddy List is not merged, the five saved-state slots
\* (title, conv_menus, paned, placeholder, conv_window) are empty; so they
\* are after every pwm_split_conversation.
C3_SlotsEmptyWhenSplit ==
  ~Merged =>
    /\ slots.title = "NULL"
    /\ slots.conv_menus = <<>>
    /\ slots.paned = NULL
    /\ slots.placeholder = NULL
    /\ slots.conv_window = NULL
C3_Witness == last.op = "split" /\ ~crashed /\ ~Merged /\ slots = EmptySlots

\* C4: the Buddy List notebook carries pwm_convs = W exactly when W's
\* notebook carries pwm_blist = the Buddy List.
C4_AssociationBidirectional ==
  \A w \in Wins : (slots.pwm_convs = w) <=> (convBlist[w] = 1)
C4_Witness == Merged /\ convBlist[slots.pwm_convs] = 1 /\ convShown # {}

\* C5: the pane container pwm_create_paned_layout leaves is vertical exactly
\* when the side's first character is 't' or 'b', and holds the
\* conversation notebook first and the Buddy List notebook second exactly
\* when it is 't' or 'l'; otherwise the Buddy List notebook is first and the
\* conversations second.  So it is for a first and for a replacing layout.
C5_LayoutFromFirstCharacter ==
  last.layout =>
    LET p == slots.paned[2]
        w == slots.pwm_convs
    IN  /\ slots.paned # NULL
        /\ paned[p].live
        /\ paned[p].vertical <=>
             (StartsWith(last.side, "t") \/ StartsWith(last.side, "b"))
        /\ IF StartsWith(last.side, "t") \/ StartsWith(last.side, "l")
             THEN tree.pchild[p] = [c1 |-> CNotebook(w), c2 |-> BNotebook]
             ELSE tree.pchild[p] = [c1 |-> BNotebook, c2 |-> CNotebook(w)]
C5_Witness ==
  /\ last.layout /\ last.op = "layout" /\ last.side = Left
  /\ ~paned[slots.paned[2]].vertical
  /\ tree.pchild[slots.paned[2]].c1 = CNotebook(slots.pwm_convs)

\* C6: notify_position_cb stores the size of the Buddy List pane (the slider
\* position, or max-position minus it when the Buddy List is not the first
\* pane) in the height preference of a vertical pane container and the width
\* preference of a horizontal one, and leaves the other alone; and when
\* notify_max_position_cb has set the slider from the preference, a
\* notify_position_cb run right after it stores the value the preference had.
PositionStored(p) ==
  LET size == IF tree'.pchild[p].c1 = BNotebook
                THEN paned'[p].position
                ELSE paned'[p].maxPosition - paned'[p].position
  IN  IF paned'[p].vertical
        THEN prefs' = [prefs EXCEPT !.height = size]
        ELSE prefs' = [prefs EXCEPT !.width = size]
RoundTrip(p) ==
  NotifyPositionCb(tree', [paned |-> paned', prefs |-> prefs'], p).prefs = prefs
C6_SizePreferenceRoundTrip ==
  [][\A p \in Paneds :
       (paned[p].live /\ paned'[p].live) =>
         /\ (paned[p].poscb > 0 /\ paned'[p].position # paned[p].position)
              => PositionStored(p)
         /\ (paned'[p].maxRuns > paned[p].maxRuns) => RoundTrip(p)]_vars

\* The two halves of C6, and the round trip where the slider position
\* notify_max_position_cb computes is not negative
C6_PositionStored ==
  [][\A p \in Paneds :
       (paned[p].live /\ paned'[p].live /\ paned[p].poscb > 0
        /\ paned'[p].position # paned[p].position) => PositionStored(p)]_vars
C6_RoundTripWhenNotNegative ==
  [][\A p \in Paneds :
       (paned[p].live /\ paned'[p].live /\ paned'[p].maxRuns > paned[p].maxRuns
        /\ (tree.pchild[p].c1 # BNotebook =>
              paned'[p].maxPosition >=
                IF paned[p].vertical THEN prefs.height ELSE prefs.width))
         => RoundTrip(p)]_vars

C8_MaxPositionOnce ==
  [][\A p \in Paneds :
       /\ paned'[p].live =>
            /\ paned'[p].maxRuns <= 1
            /\ paned'[p].poscb > 0 => paned'[p].maxRuns = 1
            /\ ~(paned'[p].poscb > 0 /\ paned'[p].maxcb > 0)
            /\ paned'[p].maxcb + paned'[p].poscb = 1
       /\ (paned[p].live /\ paned[p].maxRuns = 0) => prefs' = prefs]_vars
C8_Witness ==
  \E p \in Paneds :
    /\ paned[p].live /\ paned[p].maxRuns = 1
    /\ paned[p].poscb = 1 /\ paned[p].maxcb = 0
    /\ paned[p].position # 0

\* C9: the Buddy List window has one focus-forwarding handler while merged,
\* connected with the conversation window's original window as data, and
\* none while split; a focus-in event on a merged Buddy List delivers one
\* focus-in event to that window, and the handlers after it still run.
C9_FocusForwardedWhileMerged ==
  /\ Len(ForwardingHandlers) = IF Merged THEN 1 ELSE 0
  /\ Merged => ForwardingHandlers[1].data = CWindow(slots.pwm_convs)
  /\ last.op = "focus" =>
       /\ last.focus.defaultRan
       /\ last.focus.delivered =
            IF Merged THEN << CWindow(slots.pwm_convs) >> ELSE <<>>
C9_Witness ==
  /\ Merged /\ convShown # {} /\ last.op = "focus"
  /\ last.focus.delivered = << CWindow(slots.pwm_convs) >>

\* C10: while merged, the conversation window structure points at the Buddy
\* List's window and the conv_window slot holds the window it was created
\* with; after a split the structure points at that window again.
C10_WindowPointerSavedAndRestored ==
  \A w \in 1..nWin :
    IF slots.pwm_convs = w
      THEN convStruct[w] = BWindow /\ slots.conv_window = CWindow(w)
      ELSE convStruct[w] = CWindow(w)
C10_Witness ==
  /\ last.op = "split" /\ ~crashed /\ nWin > 0
  /\ convStruct[nWin] = CWindow(nWin)

\* s with every occurrence of x replaced by y
Replaced(s, x, y) == [i \in DOMAIN s |-> IF s[i] = x THEN y ELSE s[i]]
\* The pane containers that exist
LivePaneds == {p \in Paneds : paned[p].live}
\* The pane containers that sit somewhere in a window
PlacedPaneds == {p \in Paneds : ParentOf(tree, Paned(p)) # NULL}

\* What a pwm_create_paned_layout on a merged Buddy List leaves
ReLayoutKeepsMerge ==
  (Merged /\ last'.op = "layout") =>
    /\ slots'.paned # slots.paned
    /\ slots'.paned # NULL
    /\ ParentOf(tree', slots.paned) = NULL
    /\ ~paned'[slots.paned[2]].live
    /\ ParentOf(tree', slots'.paned) = ParentOf(tree, slots.paned)
    /\ ParentOf(tree', BNotebook) = slots'.paned
    /\ ParentOf(tree', CNotebook(slots.pwm_convs)) = slots'.paned
    /\ slots'.placeholder = slots.placeholder
    /\ tree'.box[CVbox(slots.pwm_convs)] = tree.box[CVbox(slots.pwm_convs)]
    /\ slots'.pwm_convs = slots.pwm_convs
    /\ convBlist' = convBlist

\* What a pwm_split_conversation on a merged Buddy List does to the two boxes
SplitPutsNotebooksBack ==
  (Merged /\ last'.op = "split") =>
    /\ tree'.box[CVbox(slots.pwm_convs)] =
         Replaced(tree.box[CVbox(slots.pwm_convs)], slots.placeholder,
                  CNotebook(slots.pwm_convs))
    /\ tree'.box[BVbox] = Replaced(tree.box[BVbox], slots.paned, BNotebook)
    /\ ParentOf(tree', BNotebook) = BVbox
    /\ ParentOf(tree', CNotebook(slots.pwm_convs)) = CVbox(slots.pwm_convs)

\* In every merged state one pane container is stored, exists and is placed,
\* and the placeholder holds the conversation notebook's place
OnePanedWhileMerged ==
  Merged =>
    /\ slots.paned # NULL
    /\ LivePaneds = {slots.paned[2]}
    /\ PlacedPaneds = {slots.paned[2]}
    /\ ParentOf(tree, slots.paned) = BVbox
    /\ ParentOf(tree, slots.placeholder) = CVbox(slots.pwm_convs)

\* C11: pwm_create_paned_layout on a merged Buddy List replaces the pane
\* container and nothing else of the merge: the paned slot holds the new
\* container, the old one is out of the window, both notebooks are children
\* of the new one, the placeholder slot, the placeholder's place and the
\* association tags are as before.  In every merged state one pane container
\* is stored, and a split puts the conversation notebook at the placeholder
\* and the Buddy List notebook where the pane container was.
C11_ReLayoutReplacesPanedOnly ==
  /\ [][ReLayoutKeepsMerge /\ SplitPutsNotebooksBack]_vars
  /\ []OnePanedWhileMerged
C11_Witness ==
  /\ last.op = "layout" /\ Merged
  /\ slots.paned = Paned(1)
  /\ ParentOf(tree, BNotebook) = Paned(1)
  /\ ParentOf(tree, CNotebook(slots.pwm_convs)) = Paned(1)
  /\ tree.box[BVbox] = <<BMenubar, Paned(1)>>

\* The accelerator groups of the submenus of items
AccelGroupsOf(items) == {AccelGroupOf(i) : i \in {j \in Range(items) : HasSubmenu(j)}}
\* x comes before y in s
Before(s, x, y) ==
  \E i, j \in DOMAIN s : s[i] = x /\ s[j] = y /\ i < j

\* While merged, conv_menus holds the children the conversation menu bar was
\* created with; they sit in the Buddy List menu bar before the menu tray and
\* their accelerator groups are on the Buddy List window
MenusMigratedWhileMerged ==
  Merged =>
    /\ slots.conv_menus = ConvMenuItems(slots.pwm_convs)
    /\ tree.menubar[CMenubar(slots.pwm_convs)] = <<>>
    /\ BMenutray \in Range(tree.menubar[BMenubar])
    /\ \A i \in Range(slots.conv_menus) :
         /\ ParentOf(tree, i) = BMenubar
         /\ Before(tree.menubar[BMenubar], i, BMenutray)
    /\ \A i, j \in DOMAIN slots.conv_menus :
         i < j => Before(tree.menubar[BMenubar],
                         slots.conv_menus[i], slots.conv_menus[j])
    /\ AccelGroupsOf(slots.conv_menus) \subseteq blistWin.accel

\* A merge that acted leaves the items hidden
MergeHidesMenus ==
  (last.op = "merge" /\ last.layout) =>
    Range(slots.conv_menus) \cap convItemsVisible = {}

\* A split of a merged Buddy List returns the items, in order, and takes
\* their accelerator groups off the Buddy List window
SplitReturnsMenus ==
  (Merged /\ last'.op = "split") =>
    /\ tree'.menubar[CMenubar(slots.pwm_convs)] = slots.conv_menus
    /\ \A i \in Range(slots.conv_menus) : i \notin Range(tree'.menubar[BMenubar])
    /\ BMenutray \in Range(tree'.menubar[BMenubar])
    /\ AccelGroupsOf(slots.conv_menus) \cap blistWin'.accel = {}

\* pwm_set_conv_menus_visible shows or hides the items of conv_menus, all of
\* them, and changes nothing else
VisibleChangesVisibilityOnly ==
  (last'.op = "visible") =>
    /\ UNCHANGED << tree, slots, convBlist, convStruct, nWin, paned, prefs,
                    blistWin, skipped, convShown, dummy, crashed, pre >>
    /\ convItemsVisible' \ Range(slots.conv_menus)
         = convItemsVisible \ Range(slots.conv_menus)
    /\ \/ Range(slots.conv_menus) \subseteq convItemsVisible'
       \/ Range(slots.conv_menus) \cap convItemsVisible' = {}

\* C12: after a merge the items recorded in conv_menus (the children the
\* conversation menu bar had) are children of the Buddy List menu bar before
\* the menu tray, hidden, with their submenus' accelerator groups on the
\* Buddy List window; after a split they are children of the conversation
\* menu bar in their original order and none of those groups is left on the
\* Buddy List window; pwm_set_conv_menus_visible changes only the visibility
\* of the items in conv_menus.
C12_MenusMigrateAndReturn ==
  /\ [](MenusMigratedWhileMerged /\ MergeHidesMenus)
  /\ [][SplitReturnsMenus /\ VisibleChangesVisibilityOnly]_vars
C12_Witness ==
  /\ Merged /\ last.op = "visible" /\ slots.pwm_convs = 2
  /\ Range(slots.conv_menus) \subseteq convItemsVisible
  /\ tree.menubar[CMenubar(1)] = ConvMenuItems(1)
  /\ Before(tree.menubar[BMenubar], <<"conv_menutray", 2>>, BMenutray)

\* pwm_split_conversation ends in the error state exactly when it finds no
\* conversation window, and has changed nothing of the merge by then
SplitCrashesUnlessMerged ==
  (last'.op = "split") =>
    IF Merged
      THEN ~crashed' /\ slots'.pwm_convs = 0
      ELSE /\ crashed'
           /\ UNCHANGED << tree, slots, convBlist, convStruct, blistWin >>

\* A split right after a split is no no-op, a merge right after a merge is
SecondSplitCrashesSecondMergeReturns ==
  /\ (last.op = "split" /\ last'.op = "split") => crashed'
  /\ (last.op = "merge" /\ last'.op = "merge") =>
       ~crashed' /\ UNCHANGED << tree, slots, convBlist, convStruct, blistWin >>

\* C13: pwm_split_conversation has no guard like merge's: on a Buddy List
\* with no conversation window (never merged, or split already) it does not
\* return but reads the conversation window's notebook through a NULL
\* pointer, an error state; on a merged one it does not.  So a second split
\* in a row is no no-op, while a second merge in a row is.
C13_SplitUnguarded ==
  [][SplitCrashesUnlessMerged /\ SecondSplitCrashesSecondMergeReturns]_vars
C13_Witness ==
  /\ crashed /\ last.op = "split"
  /\ nWin > 0 /\ convShown = 1..nWin /\ ~Merged
  /\ convStruct[nWin] = CWindow(nWin)
====
